---- MODULE Spec2Model ----
(***************************************************************************)
(* A model of src/main.py: the FastAPI application of first-fastapi.       *)
(*                                                                         *)
(* Every request goes through the same pipeline: it is received, its      *)
(* parameters are validated and bound by the declarations in the handler's *)
(* signature (and by the pydantic models those name), and then the handler *)
(* body runs statement by statement on its own frame and returns.  A       *)
(* request that fails validation gets the list of failing fields and the   *)
(* handler body never runs; an exception raised by the body is answered    *)
(* as a server error.                                                      *)
(*                                                                         *)
(* Encodings.  A Python Optional is a sequence of length at most one       *)
(* (None is <<>>, a present value v is <<v>>).  A dict is a function from  *)
(* its keys (strings) to values.  A float is an integer number of units.   *)
(* A datetime is its wall-clock reading and its tzinfo (None for a naive   *)
(* datetime, else the UTC offset), a timedelta an integer.                 *)
(***************************************************************************)
EXTENDS Integers, Sequences, FiniteSets, TLC

VARIABLES
    pc,     \* per in-flight request: where it is in the pipeline
    req,    \* per in-flight request: the raw request as sent by the client
    args,   \* per in-flight request: the validated, bound handler parameters
    loc,    \* per in-flight request: the local variables of the handler frame
    resp    \* per in-flight request: the response

vars == <<pc, req, args, loc, resp>>

----------------------------------------------------------------------------
(* Bounds of the model *)

\* requests in flight at once in the concurrent specification
NWorkers == 2
\* largest price (and offer price) a client sends
MaxPrice == 2
\* largest tax a client sends (the smallest is -1)
MaxTax == 1
\* longest Offer.items a client sends
MaxItems == 2
\* the datetime range: wall-clock readings 0..MaxWall stand for
\* datetime.min..datetime.max
MaxWall == 2
\* largest timedelta a client sends (the smallest is -1)
MaxDelta == 1

----------------------------------------------------------------------------
(* Program constants *)

\* create_item: item_id = Path(gt=1, le=1000)
CreateItemIdGt == 1
CreateItemIdLe == 1000
\* update_item: item_id = Path(ge=0, le=1000)
UpdateItemIdGe == 0
UpdateItemIdLe == 1000
\* Item.price = Field(gt=0)
PriceGt == 0
\* Item.description = Field(max_length=300)
DescriptionMaxLength == 300

----------------------------------------------------------------------------
(* Python values *)

None == <<>>
Some(v) == <<v>>
Val(o) == o[1]

EmptyDict == <<>>

\* dict.update: the keys of the argument override those of the receiver
Update(d, e) == e @@ d

\* `is not None` written for truthiness
TruthyNumNotNone(o) == o # None

\* Python truthiness of an Optional[str] / Optional[list]: None, "" and []
\* are falsy
TruthyStr(o) == o # None /\ Val(o) # ""
TruthyList(o) == o # None /\ Len(Val(o)) > 0
\* ... of an Optional[float] / int: None and zero are falsy
TruthyNum(o) == o # None /\ Val(o) # 0
TruthyInt(n) == n # 0
\* ... of an Optional[BaseModel]: a model instance is always truthy
TruthyModel(o) == o # None

----------------------------------------------------------------------------
(* Sample values the clients send *)

Workers == 1..NWorkers

RECURSIVE Xs(_)
Xs(n) == IF n = 0 THEN "" ELSE "x" \o Xs(n - 1)

\* a description one character over Item.description's max_length
LongDescription == Xs(DescriptionMaxLength + 1)

Descriptions == {None, Some("A very nice Item"), Some(LongDescription)}

Prices == (PriceGt - 1)..MaxPrice
Taxes == {None} \cup {Some(t) : t \in -1..MaxTax}

\* a raw Item body: tags and image are left out by the client
RawItem(d, p, t) ==
    [name |-> "Foo", description |-> d, price |-> p, tax |-> t,
     tags |-> None, image |-> None]

RawItems == {RawItem(d, p, t) : d \in Descriptions, p \in Prices, t \in Taxes}

\* the items offers are built from carry no description
OfferItems == {RawItem(None, p, t) : p \in Prices, t \in Taxes}

SeqsUpTo(S, n) == UNION {[1..k -> S] : k \in 0..n}

RawUsers == {None, Some([username |-> "dave", full_name |-> None])}

\* query strings: absent, present and empty (?q=), present and non-empty
QueryStrs == {None, Some(""), Some("foo")}
\* repeated query parameter _Query: absent, or a non-empty list of values
QueryLists == {None, Some(<<"">>), Some(<<"foo">>), Some(<<"foo", "bar">>)}
\* an optional bool query parameter
QueryBools == {None, Some(TRUE), Some(FALSE)}

ModelNameInputs == {"alexnet", "resnet", "lenet", "vgg", "AlexNet"}

\* the integers around the bounds the path declarations state
CreateItemIds ==
    {CreateItemIdGt - 1, CreateItemIdGt, CreateItemIdGt + 1,
     CreateItemIdLe - 1, CreateItemIdLe, CreateItemIdLe + 1}
UpdateItemIds ==
    {UpdateItemIdGe - 1, UpdateItemIdGe, UpdateItemIdGe + 1,
     UpdateItemIdLe, UpdateItemIdLe + 1}

Walls == 0..MaxWall
TzInfos == {None, Some(0), Some(1)}
Datetimes == {[wall |-> t, tz |-> z] : t \in Walls, z \in TzInfos}
OptDatetimes == {None} \cup {Some(d) : d \in Datetimes}
OptTimes == {None, Some("12:00:00")}
OptTimedeltas == {None} \cup {Some(d) : d \in -1..MaxDelta}

----------------------------------------------------------------------------
(* The requests clients send, one record shape per route *)

ReadItemRequests ==
    {[op |-> "read_item", item_id |-> i, q |-> q, short |-> s] :
        i \in {0, 5}, q \in QueryStrs, s \in QueryBools}

GetModelRequests ==
    {[op |-> "get_model", model_name |-> m] : m \in ModelNameInputs}

ReadFileRequests ==
    {[op |-> "read_file", file_path |-> p] :
        p \in {"myfile.txt", "/home/johndoe/myfile.txt"}}

SearchRequests ==
    {[op |-> "search", needy |-> n, skip |-> s, limit |-> l] :
        n \in {None, Some("yes")}, s \in {None, Some(3)}, l \in {None, Some(10)}}

ReadUserItemRequests ==
    {[op |-> "read_user_item", user_id |-> u, item_id |-> "foo", q |-> q,
      short |-> s] : u \in {0, 7}, q \in QueryStrs, s \in QueryBools}

CreateItemRequests ==
    {[op |-> "create_item", item_id |-> i, item |-> it, q |-> q] :
        i \in CreateItemIds, it \in RawItems, q \in QueryLists}

UpdateItemRequests ==
    {[op |-> "update_item", item_id |-> i, q |-> q, item |-> it,
      importance |-> m, user |-> u] :
        i \in UpdateItemIds, q \in QueryStrs,
        it \in {None} \cup {Some(x) : x \in RawItems},
        m \in {None, Some(0), Some(5)}, u \in RawUsers}

CreateOfferRequests ==
    {[op |-> "create_offer",
      offer |-> [name |-> "Bundle", description |-> None, price |-> p,
                 items |-> its]] :
        p \in {PriceGt - 1, MaxPrice}, its \in SeqsUpTo(OfferItems, MaxItems)}

TimeWindowRequests ==
    {[op |-> "read_items", item_id |-> "3fa85f64-5717-4562-b3fc-2c963f66afa6",
      start_datetime |-> sd, end_datetime |-> ed, repeat_at |-> ra,
      process_after |-> pa] :
        sd \in OptDatetimes, ed \in OptDatetimes, ra \in OptTimes,
        pa \in OptTimedeltas}

Requests ==
    ReadItemRequests \cup GetModelRequests \cup ReadFileRequests
    \cup SearchRequests \cup ReadUserItemRequests \cup CreateItemRequests
    \cup UpdateItemRequests \cup CreateOfferRequests \cup TimeWindowRequests

----------------------------------------------------------------------------
(* Validation: the declarations of the models and of the handler signatures *)

\* class ModelName(str, Enum)
ModelName == {"alexnet", "resnet", "lenet"}

\* the price bound with ge written for gt
PriceOkGe(p) == p >= PriceGt

\* Item.price = Field(gt=0)
PriceOk(p) == p > PriceGt

\* Item.description = Field(default=None, max_length=300)
DescriptionOk(d) == d = None \/ Len(Val(d)) <= DescriptionMaxLength

\* the errors of one raw Item, each located under the prefix `at`
ItemErrors(it, at) ==
    (IF PriceOk(it.price) THEN {} ELSE {at \o ".price"})
    \cup (IF DescriptionOk(it.description) THEN {} ELSE {at \o ".description"})

\* the create_item bound with ge written for gt
CreateItemIdOkGe(i) == i >= CreateItemIdGt /\ i <= CreateItemIdLe

\* create_item: item_id = Path(gt=1, le=1000)
CreateItemIdOk(i) == i > CreateItemIdGt /\ i <= CreateItemIdLe

\* update_item: item_id = Path(ge=0, le=1000)
UpdateItemIdOk(i) == i >= UpdateItemIdGe /\ i <= UpdateItemIdLe

IndexName(k) == CASE k = 1 -> "0" [] k = 2 -> "1" [] k = 3 -> "2" [] OTHER -> "3"

\* the locations of all validation errors of a raw request (FastAPI reports
\* every failing field, not only the first)
Errors(r) ==
    CASE r.op = "get_model" ->
            IF r.model_name \in ModelName THEN {} ELSE {"path.model_name"}
      [] r.op = "search" ->
            IF r.needy = None THEN {"query.needy"} ELSE {}
      [] r.op = "create_item" ->
            (IF CreateItemIdOk(r.item_id) THEN {} ELSE {"path.item_id"})
            \cup ItemErrors(r.item, "body.item")
      [] r.op = "update_item" ->
            (IF UpdateItemIdOk(r.item_id) THEN {} ELSE {"path.item_id"})
            \cup (IF r.item = None THEN {} ELSE ItemErrors(Val(r.item), "body.item"))
            \cup (IF r.importance = None THEN {"body.importance"} ELSE {})
            \cup (IF r.user = None THEN {"body.user"} ELSE {})
      [] r.op = "create_offer" ->
            UNION {ItemErrors(r.offer.items[k], "body.items." \o IndexName(k)) :
                     k \in 1..Len(r.offer.items)}
      [] OTHER -> {}

\* a validated Item: tags defaults to the empty list, image to None; no
\* other field is touched
BindItem(it) ==
    [name |-> it.name, description |-> it.description, price |-> it.price,
     tax |-> it.tax, tags |-> IF it.tags = None THEN <<>> ELSE Val(it.tags),
     image |-> it.image]

\* the handler's parameters, with the defaults of its signature
Bind(r) ==
    CASE r.op \in {"read_item", "read_user_item"} ->
            [r EXCEPT !.short = IF @ = None THEN FALSE ELSE Val(@)]
      [] r.op = "search" ->
            [r EXCEPT !.needy = Val(@), !.skip = IF @ = None THEN 0 ELSE Val(@)]
      [] r.op = "create_item" ->
            [r EXCEPT !.item = BindItem(@)]
      [] r.op = "update_item" ->
            [r EXCEPT !.item = IF @ = None THEN None ELSE Some(BindItem(Val(@))),
                      !.importance = Val(@), !.user = Val(@)]
      [] r.op = "create_offer" ->
            [r EXCEPT !.offer.items = [k \in 1..Len(@) |-> BindItem(@[k])]]
      [] OTHER -> r

----------------------------------------------------------------------------
(* Responses *)

NoRequest == [op |-> "none"]
NoResponse == [kind |-> "none", body |-> EmptyDict, errors |-> {}]
Ok(b) == [kind |-> "ok", body |-> b, errors |-> {}]
\* a request-validation failure (HTTP 422) listing the failing fields
Invalid(E) == [kind |-> "validation_error", body |-> EmptyDict, errors |-> E]
\* an exception escaping the handler (HTTP 500)
ServerError == [kind |-> "server_error", body |-> EmptyDict, errors |-> {}]

----------------------------------------------------------------------------
(* The statements of the handler bodies, as functions of the bound          *)
(* parameters a and of the frame f (the handler's local variables)          *)

LongText == "This is an amazing item that has a long description"

\* item.dict()
ItemDict(it) ==
    [name |-> it.name, description |-> it.description, price |-> it.price,
     tax |-> it.tax, tags |-> it.tags, image |-> it.image]

\* line 79 with the test on short inverted
read_item_79_inverted(a, f) ==
    IF a.short
    THEN [f EXCEPT !.item =
            Update(@, [description |->
                         "This is an amazing item that has a long description"])]
    ELSE f

\* read_item, GET /items/{item_id}
read_item_76(a, f) == [item |-> [item_id |-> a.item_id]]
read_item_77(a, f) ==
    IF TruthyStr(a.q) THEN [f EXCEPT !.item = Update(@, [q |-> Val(a.q)])] ELSE f
read_item_79(a, f) ==
    IF ~a.short THEN [f EXCEPT !.item = Update(@, [description |-> LongText])]
    ELSE f

\* line 92 returning the message of line 94
get_model_92_residuals(a) ==
    [model_name |-> a.model_name, message |-> "Have some residuals"]

\* get_model: the message each branch returns
get_model_89(a) == [model_name |-> a.model_name, message |-> "Deep Learning FTW!"]
get_model_92(a) == [model_name |-> a.model_name, message |-> "LeCNN all the images"]
get_model_94(a) == [model_name |-> a.model_name, message |-> "Have some residuals"]

\* read_user_item
read_user_item_112(a, f) ==
    [item |-> [item_id |-> a.item_id, owner_id |-> a.user_id]]
read_user_item_113(a, f) ==
    IF TruthyStr(a.q) THEN [f EXCEPT !.item = Update(@, [q |-> Val(a.q)])] ELSE f
read_user_item_115(a, f) ==
    IF ~a.short THEN [f EXCEPT !.item = Update(@, [description |-> LongText])]
    ELSE f

\* line 138 subtracting the tax
create_item_138_minus(a, f) ==
    Update(f, [price_with_tax |-> a.item.price - Val(a.item.tax)])

\* create_item
create_item_134(a, f) == [item_dict |-> ItemDict(a.item)]
create_item_135(a, f) ==
    IF TruthyList(a.q) THEN [f EXCEPT !.item_dict = Update(@, [q |-> Val(a.q)])]
    ELSE f
create_item_138(a, f) ==
    Update(f, [price_with_tax |-> a.item.price + Val(a.item.tax)])
create_item_139(a, f) ==
    [f EXCEPT !.item_dict =
        Update(@, [item_id |-> a.item_id, price_with_tax |-> f.price_with_tax])]

\* line 178 putting item_id in the results only when it is truthy
update_item_178_truthy(a, f) ==
    IF TruthyInt(a.item_id) THEN [results |-> [item_id |-> a.item_id]]
    ELSE [results |-> EmptyDict]

\* update_item
update_item_178(a, f) == [results |-> [item_id |-> a.item_id]]
update_item_179(a, f) ==
    IF TruthyStr(a.q) THEN [f EXCEPT !.results = Update(@, [q |-> Val(a.q)])]
    ELSE f
update_item_181(a, f) ==
    IF TruthyModel(a.item)
    THEN [f EXCEPT !.results = Update(@, [item |-> Val(a.item)])]
    ELSE f
update_item_183(a, f) ==
    IF TruthyModel(Some(a.user))
    THEN [f EXCEPT !.results = Update(@, [user |-> a.user])]
    ELSE f
update_item_185(a, f) ==
    IF TruthyInt(a.importance)
    THEN [f EXCEPT !.results = Update(@, [importance |-> a.importance])]
    ELSE f

\* datetime + timedelta: TypeError when either operand is None,
\* OverflowError when the result leaves datetime.min..datetime.max
AddRaises(d, td) == d = None \/ td = None \/ Val(d).wall + Val(td) \notin Walls
DatetimeAdd(d, td) == [d EXCEPT !.wall = @ + td]

\* subtraction of the wall-clock readings, the UTC offsets ignored
DatetimeSubWall(d, e) == d.wall - e.wall

\* datetime - datetime: TypeError when the left operand is None or when one
\* operand is naive and the other aware; aware operands are compared in UTC
UtcOffset(d) == IF d.tz = None THEN 0 ELSE Val(d.tz)
SubRaises(d, e) == d = None \/ ((Val(d).tz = None) # (e.tz = None))
DatetimeSub(d, e) == (d.wall - UtcOffset(d)) - (e.wall - UtcOffset(e))

\* read_items, PUT /items-v2/{item_id}
read_items_215(a, f) ==
    Update(f, [start_process |->
                 DatetimeAdd(Val(a.start_datetime), Val(a.process_after))])
read_items_216(a, f) ==
    Update(f, [duration |-> DatetimeSub(Val(a.end_datetime), f.start_process)])
read_items_217(a, f) ==
    [item_id |-> a.item_id, start_datetime |-> a.start_datetime,
     end_datetime |-> a.end_datetime, repeat_at |-> a.repeat_at,
     process_after |-> a.process_after, start_process |-> f.start_process,
     duration |-> f.duration]

----------------------------------------------------------------------------
(* A handler run on its own, from the raw request to the response *)

Body(a) ==
    CASE a.op = "read_item" ->
            Ok(read_item_79(a, read_item_77(a, read_item_76(a, EmptyDict))).item)
      [] a.op = "get_model" ->
            IF a.model_name = "alexnet" THEN Ok(get_model_89(a))
            ELSE IF a.model_name = "lenet" THEN Ok(get_model_92(a))
            ELSE Ok(get_model_94(a))
      [] a.op = "read_file" -> Ok([file_path |-> a.file_path])
      [] a.op = "search" ->
            Ok([skip |-> a.skip, limit |-> a.limit, needy |-> a.needy])
      [] a.op = "read_user_item" ->
            Ok(read_user_item_115(a, read_user_item_113(a,
                    read_user_item_112(a, EmptyDict))).item)
      [] a.op = "create_item" ->
            LET f2 == create_item_135(a, create_item_134(a, EmptyDict))
            IN  IF TruthyNum(a.item.tax)
                THEN Ok(create_item_139(a, create_item_138(a, f2)).item_dict)
                ELSE Ok(f2.item_dict)
      [] a.op = "update_item" ->
            Ok(update_item_185(a, update_item_183(a, update_item_181(a,
                    update_item_179(a, update_item_178(a, EmptyDict))))).results)
      [] a.op = "create_offer" -> Ok(a.offer)
      [] a.op = "read_items" ->
            IF AddRaises(a.start_datetime, a.process_after) THEN ServerError
            ELSE LET f1 == read_items_215(a, EmptyDict)
                 IN  IF SubRaises(a.end_datetime, f1.start_process)
                     THEN ServerError
                     ELSE Ok(read_items_217(a, read_items_216(a, f1)))

Alone(r) == IF Errors(r) # {} THEN Invalid(Errors(r)) ELSE Body(Bind(r))

----------------------------------------------------------------------------
(* The pipeline *)

\* the first statement of each handler body
Entry(op) ==
    CASE op = "read_item" -> "read_item:76"
      [] op = "get_model" -> "get_model:88"
      [] op = "read_file" -> "read_file:100"
      [] op = "search" -> "search:106"
      [] op = "read_user_item" -> "read_user_item:112"
      [] op = "create_item" -> "create_item:134"
      [] op = "update_item" -> "update_item:178"
      [] op = "create_offer" -> "create_offer:192"
      [] op = "read_items" -> "read_items:215"

Init ==
    /\ pc = [w \in Workers |-> "idle"]
    /\ req = [w \in Workers |-> NoRequest]
    /\ args = [w \in Workers |-> NoRequest]
    /\ loc = [w \in Workers |-> EmptyDict]
    /\ resp = [w \in Workers |-> NoResponse]

\* a request from R arrives and is routed
Accept(w, R) ==
    /\ pc[w] = "idle"
    /\ \E r \in R : req' = [req EXCEPT ![w] = r]
    /\ pc' = [pc EXCEPT ![w] = "validate"]
    /\ UNCHANGED <<args, loc, resp>>

\* the framework validates the request and binds the handler's parameters,
\* or answers with the validation errors without calling the handler
Validate(w) ==
    /\ pc[w] = "validate"
    /\ IF Errors(req[w]) = {}
       THEN /\ args' = [args EXCEPT ![w] = Bind(req[w])]
            /\ pc' = [pc EXCEPT ![w] = Entry(req[w].op)]
            /\ UNCHANGED resp
       ELSE /\ resp' = [resp EXCEPT ![w] = Invalid(Errors(req[w]))]
            /\ pc' = [pc EXCEPT ![w] = "done"]
            /\ UNCHANGED args
    /\ UNCHANGED <<req, loc>>

\* a statement at label l that leaves the frame f and goes on at label n
Exec(w, l, n, f) ==
    /\ pc[w] = l
    /\ loc' = [loc EXCEPT ![w] = f]
    /\ pc' = [pc EXCEPT ![w] = n]
    /\ UNCHANGED <<req, args, resp>>

\* a return statement at label l
Return(w, l, b) ==
    /\ pc[w] = l
    /\ resp' = [resp EXCEPT ![w] = Ok(b)]
    /\ pc' = [pc EXCEPT ![w] = "done"]
    /\ UNCHANGED <<req, args, loc>>

\* an exception raised at label l and caught by nothing
Raise(w, l) ==
    /\ pc[w] = l
    /\ resp' = [resp EXCEPT ![w] = ServerError]
    /\ pc' = [pc EXCEPT ![w] = "done"]
    /\ UNCHANGED <<req, args, loc>>

\* the response is sent and the request's frame is gone
Deliver(w) ==
    /\ pc[w] = "done"
    /\ pc' = [pc EXCEPT ![w] = "idle"]
    /\ req' = [req EXCEPT ![w] = NoRequest]
    /\ args' = [args EXCEPT ![w] = NoRequest]
    /\ loc' = [loc EXCEPT ![w] = EmptyDict]
    /\ resp' = [resp EXCEPT ![w] = NoResponse]

----------------------------------------------------------------------------
(* The handlers, one action per statement *)

ReadItem76(w) ==
    Exec(w, "read_item:76", "read_item:77", read_item_76(args[w], loc[w]))
ReadItem77(w) ==
    Exec(w, "read_item:77", "read_item:79", read_item_77(args[w], loc[w]))
ReadItem79(w) ==
    Exec(w, "read_item:79", "read_item:81", read_item_79(args[w], loc[w]))
ReadItem81(w) == Return(w, "read_item:81", loc[w].item)

GetModel88(w) ==
    /\ pc[w] = "get_model:88"
    /\ IF args[w].model_name = "alexnet"
       THEN Return(w, "get_model:88", get_model_89(args[w]))
       ELSE Exec(w, "get_model:88", "get_model:91", loc[w])
GetModel91(w) ==
    /\ pc[w] = "get_model:91"
    /\ IF args[w].model_name = "lenet"
       THEN Return(w, "get_model:91", get_model_92(args[w]))
       ELSE Exec(w, "get_model:91", "get_model:94", loc[w])
GetModel94(w) == Return(w, "get_model:94", get_model_94(args[w]))

ReadFile100(w) ==
    Return(w, "read_file:100", [file_path |-> args[w].file_path])

Search106(w) ==
    Return(w, "search:106",
           [skip |-> args[w].skip, limit |-> args[w].limit,
            needy |-> args[w].needy])

ReadUserItem112(w) ==
    Exec(w, "read_user_item:112", "read_user_item:113",
         read_user_item_112(args[w], loc[w]))
ReadUserItem113(w) ==
    Exec(w, "read_user_item:113", "read_user_item:115",
         read_user_item_113(args[w], loc[w]))
ReadUserItem115(w) ==
    Exec(w, "read_user_item:115", "read_user_item:117",
         read_user_item_115(args[w], loc[w]))
ReadUserItem117(w) == Return(w, "read_user_item:117", loc[w].item)

\* line 135 with item_dict a module-level dict: the statement works on the
\* item_dict of the oldest frame that holds one
CreateItem135Shared(w) ==
    LET holders == {v \in Workers : "item_dict" \in DOMAIN loc[v]}
        first == IF holders = {} THEN w
                 ELSE CHOOSE v \in holders : \A u \in holders : v <= u
    IN  Exec(w, "create_item:135", "create_item:137",
             create_item_135(args[w], loc[first]))

CreateItem134(w) ==
    Exec(w, "create_item:134", "create_item:135",
         create_item_134(args[w], loc[w]))
CreateItem135(w) ==
    Exec(w, "create_item:135", "create_item:137",
         create_item_135(args[w], loc[w]))
CreateItem137(w) ==
    /\ pc[w] = "create_item:137"
    /\ IF TruthyNum(args[w].item.tax)
       THEN Exec(w, "create_item:137", "create_item:138", loc[w])
       ELSE Exec(w, "create_item:137", "create_item:140", loc[w])
CreateItem138(w) ==
    Exec(w, "create_item:138", "create_item:139",
         create_item_138(args[w], loc[w]))
CreateItem139(w) ==
    Exec(w, "create_item:139", "create_item:140",
         create_item_139(args[w], loc[w]))
CreateItem140(w) == Return(w, "create_item:140", loc[w].item_dict)

UpdateItem178(w) ==
    Exec(w, "update_item:178", "update_item:179",
         update_item_178(args[w], loc[w]))
UpdateItem179(w) ==
    Exec(w, "update_item:179", "update_item:181",
         update_item_179(args[w], loc[w]))
UpdateItem181(w) ==
    Exec(w, "update_item:181", "update_item:183",
         update_item_181(args[w], loc[w]))
UpdateItem183(w) ==
    Exec(w, "update_item:183", "update_item:185",
         update_item_183(args[w], loc[w]))
UpdateItem185(w) ==
    Exec(w, "update_item:185", "update_item:187",
         update_item_185(args[w], loc[w]))
UpdateItem187(w) == Return(w, "update_item:187", loc[w].results)

CreateOffer192(w) == Return(w, "create_offer:192", args[w].offer)

ReadItems215(w) ==
    /\ pc[w] = "read_items:215"
    /\ IF AddRaises(args[w].start_datetime, args[w].process_after)
       THEN Raise(w, "read_items:215")
       ELSE Exec(w, "read_items:215", "read_items:216",
                 read_items_215(args[w], loc[w]))
ReadItems216(w) ==
    /\ pc[w] = "read_items:216"
    /\ IF SubRaises(args[w].end_datetime, loc[w].start_process)
       THEN Raise(w, "read_items:216")
       ELSE Exec(w, "read_items:216", "read_items:217",
                 read_items_216(args[w], loc[w]))
ReadItems217(w) ==
    Return(w, "read_items:217", read_items_217(args[w], loc[w]))

\* any step of the request in slot w after its arrival
Step(w) ==
    \/ Validate(w)
    \/ ReadItem76(w) \/ ReadItem77(w) \/ ReadItem79(w) \/ ReadItem81(w)
    \/ GetModel88(w) \/ GetModel91(w) \/ GetModel94(w)
    \/ ReadFile100(w)
    \/ Search106(w)
    \/ ReadUserItem112(w) \/ ReadUserItem113(w) \/ ReadUserItem115(w)
    \/ ReadUserItem117(w)
    \/ CreateItem134(w) \/ CreateItem135(w) \/ CreateItem137(w)
    \/ CreateItem138(w) \/ CreateItem139(w) \/ CreateItem140(w)
    \/ UpdateItem178(w) \/ UpdateItem179(w) \/ UpdateItem181(w)
    \/ UpdateItem183(w) \/ UpdateItem185(w) \/ UpdateItem187(w)
    \/ CreateOffer192(w)
    \/ ReadItems215(w) \/ ReadItems216(w) \/ ReadItems217(w)
    \/ Deliver(w)

\* one request at a time, drawn from all the requests of the model
Receive(w) == Accept(w, Requests)

Next == \E w \in {1} : Receive(w) \/ Step(w)

Spec == Init /\ [][Next]_vars

----------------------------------------------------------------------------
(* Concurrent requests: NWorkers requests in flight, their statements       *)
(* interleaved in any order                                                 *)

SampleRequests ==
    {[op |-> "read_item", item_id |-> 5, q |-> Some("foo"), short |-> None],
     [op |-> "get_model", model_name |-> "alexnet"],
     [op |-> "get_model", model_name |-> "resnet"],
     [op |-> "read_file", file_path |-> "myfile.txt"],
     [op |-> "search", needy |-> Some("yes"), skip |-> None, limit |-> None],
     [op |-> "read_user_item", user_id |-> 7, item_id |-> "foo", q |-> None,
      short |-> Some(TRUE)],
     [op |-> "create_item", item_id |-> CreateItemIdLe,
      item |-> RawItem(None, 1, Some(1)), q |-> Some(<<"foo">>)],
     [op |-> "create_item", item_id |-> CreateItemIdGt + 1,
      item |-> RawItem(None, 2, Some(0)), q |-> None],
     [op |-> "create_item", item_id |-> CreateItemIdGt,
      item |-> RawItem(None, 1, None), q |-> None],
     [op |-> "update_item", item_id |-> UpdateItemIdGe, q |-> Some("foo"),
      item |-> Some(RawItem(None, 1, None)), importance |-> Some(5),
      user |-> Some([username |-> "dave", full_name |-> None])],
     [op |-> "update_item", item_id |-> UpdateItemIdLe, q |-> None,
      item |-> None, importance |-> Some(0),
      user |-> Some([username |-> "dave", full_name |-> None])],
     [op |-> "create_offer",
      offer |-> [name |-> "Bundle", description |-> None, price |-> 1,
                 items |-> <<RawItem(None, 1, None)>>]],
     [op |-> "read_items", item_id |-> "3fa85f64-5717-4562-b3fc-2c963f66afa6",
      start_datetime |-> Some([wall |-> 0, tz |-> None]),
      end_datetime |-> Some([wall |-> 2, tz |-> None]),
      repeat_at |-> None, process_after |-> Some(1)],
     [op |-> "read_items", item_id |-> "3fa85f64-5717-4562-b3fc-2c963f66afa6",
      start_datetime |-> Some([wall |-> 0, tz |-> None]),
      end_datetime |-> None,
      repeat_at |-> None, process_after |-> None]}

ReceiveSample(w) == Accept(w, SampleRequests)

NextConc == \E w \in Workers : ReceiveSample(w) \/ Step(w)

SpecConc == Init /\ [][NextConc]_vars

----------------------------------------------------------------------------
(* Where a request is *)

\* the handler has been called and has not returned
Handling(w) == pc[w] \notin {"idle", "validate", "done"}
\* the response is ready
Done(w) == pc[w] = "done"
\* the handler returned a mapping
Returned(w) == Done(w) /\ resp[w].kind = "ok"
\* the request was refused by validation and the handler never ran
Rejected(w) ==
    /\ Done(w)
    /\ resp[w].kind = "validation_error"
    /\ resp[w].errors # {}
    /\ resp[w].body = EmptyDict
    /\ args[w] = NoRequest
    /\ loc[w] = EmptyDict

\* the raw Items a request carries, each with the location of its price
RawItemsOf(r) ==
    CASE r.op = "create_item" -> {<<r.item, "body.item.price">>}
      [] r.op = "update_item" ->
            IF r.item = None THEN {} ELSE {<<Val(r.item), "body.item.price">>}
      [] r.op = "create_offer" ->
            {<<r.offer.items[k], "body.items." \o IndexName(k) \o ".price">> :
               k \in 1..Len(r.offer.items)}
      [] OTHER -> {}

\* the validated Items a handler was called with
BoundItemsOf(a) ==
    CASE a.op = "create_item" -> {a.item}
      [] a.op = "update_item" -> IF a.item = None THEN {} ELSE {Val(a.item)}
      [] a.op = "create_offer" -> {a.offer.items[k] : k \in 1..Len(a.offer.items)}
      [] OTHER -> {}

\* every Item of the bound parameters a carries the price of the same Item
\* of the raw request r
PricesKept(r, a) ==
    CASE r.op = "create_item" -> a.item.price = r.item.price
      [] r.op = "update_item" ->
            /\ (a.item = None) <=> (r.item = None)
            /\ r.item # None => Val(a.item).price = Val(r.item).price
      [] r.op = "create_offer" ->
            /\ Len(a.offer.items) = Len(r.offer.items)
            /\ \A k \in 1..Len(r.offer.items) :
                  a.offer.items[k].price = r.offer.items[k].price
      [] OTHER -> TRUE

ItemFields == {"name", "description", "price", "tax", "tags", "image"}

----------------------------------------------------------------------------
(* C1 *)

\* C1: in Item creation the request passes the path-parameter bound exactly
\* when 1 < item_id <= 1000 (1 is rejected, 1000 accepted, 1001 rejected),
\* and a rejected item_id never reaches the handler body.
CreateItemPathBound ==
    \A w \in Workers :
        req[w].op = "create_item" =>
            LET id == req[w].item_id
                inBound == 1 < id /\ id <= 1000
            IN  /\ Handling(w) => inBound
                /\ Done(w) => (("path.item_id" \in resp[w].errors) <=> ~inBound)
                /\ Done(w) /\ ~inBound => Rejected(w)
                /\ Done(w) /\ id = 1 => Rejected(w)
                /\ Done(w) /\ id = 1001 => Rejected(w)
                /\ Done(w) /\ id = 1000 => "path.item_id" \notin resp[w].errors

\* item_id = 1 with an otherwise valid item is refused for its item_id alone
CreateItemIdOneRejected ==
    \E w \in Workers :
        /\ req[w].op = "create_item"
        /\ req[w].item_id = 1
        /\ Rejected(w)
        /\ resp[w].errors = {"path.item_id"}

----------------------------------------------------------------------------
(* C2 *)

\* C2: every Item that reaches a handler (Item creation, Item update, an
\* element of Offer.items) has price > 0 and the price the client sent; an
\* Item with price <= 0 is rejected with a constraint violation on its price
\* before any handler logic runs.
ItemPricePositive ==
    \A w \in Workers :
        /\ Handling(w) \/ Returned(w) =>
              /\ \A it \in BoundItemsOf(args[w]) : it.price > 0
              /\ PricesKept(req[w], args[w])
        /\ Done(w) =>
              \A x \in RawItemsOf(req[w]) :
                  x[1].price <= 0 => Rejected(w) /\ x[2] \in resp[w].errors

\* an offer whose second item has price 0 is refused, naming that item
OfferWithFreeItemRejected ==
    \E w \in Workers :
        /\ req[w].op = "create_offer"
        /\ Len(req[w].offer.items) = 2
        /\ req[w].offer.items[1].price > 0
        /\ req[w].offer.items[2].price = 0
        /\ Rejected(w)
        /\ resp[w].errors = {"body.items.1.price"}

----------------------------------------------------------------------------
(* C3 *)

\* C3: Model lookup returns "Deep Learning FTW!" for alexnet, "LeCNN all the
\* images" for lenet and "Have some residuals" for resnet, with model_name
\* equal to the input; any other value is rejected by enum validation before
\* dispatch, so no message is returned for it.
ModelLookupMessages ==
    \A w \in Workers :
        req[w].op = "get_model" =>
            LET m == req[w].model_name
            IN  /\ Handling(w) => m \in {"alexnet", "resnet", "lenet"}
                /\ Done(w) /\ m = "alexnet" =>
                      resp[w] = Ok([model_name |-> "alexnet",
                                    message |-> "Deep Learning FTW!"])
                /\ Done(w) /\ m = "lenet" =>
                      resp[w] = Ok([model_name |-> "lenet",
                                    message |-> "LeCNN all the images"])
                /\ Done(w) /\ m = "resnet" =>
                      resp[w] = Ok([model_name |-> "resnet",
                                    message |-> "Have some residuals"])
                /\ Done(w) /\ m \notin {"alexnet", "resnet", "lenet"} =>
                      /\ Rejected(w)
                      /\ resp[w].errors = {"path.model_name"}

\* a lookup of lenet has answered
LenetAnswered ==
    \E w \in Workers :
        /\ req[w].op = "get_model"
        /\ req[w].model_name = "lenet"
        /\ Returned(w)
        /\ resp[w].body.message = "LeCNN all the images"

----------------------------------------------------------------------------
(* C4 *)

\* C4: a Time-window request in which process_after or start_datetime is
\* absent is rejected as a validation failure, and never returns a mapping
\* holding a partial result.
TimeWindowMissingInputRejected ==
    \A w \in Workers :
        /\ req[w].op = "read_items"
        /\ Done(w)
        /\ (req[w].start_datetime = None \/ req[w].process_after = None)
        => /\ resp[w].kind = "validation_error"
           /\ resp[w].body = EmptyDict

----------------------------------------------------------------------------
(* C5 *)

\* what Item creation returns of the item itself and of q
CreateItemEchoes(w) ==
    /\ ItemFields \subseteq DOMAIN resp[w].body
    /\ resp[w].body.name = req[w].item.name
    /\ resp[w].body.description = req[w].item.description
    /\ resp[w].body.price = req[w].item.price
    /\ resp[w].body.tax = req[w].item.tax
    /\ resp[w].body.tags = <<>>
    /\ resp[w].body.image = None
    /\ req[w].q # None =>
          "q" \in DOMAIN resp[w].body /\ resp[w].body.q = Val(req[w].q)

CreateItemHasPriceWithTax(w) ==
    /\ "price_with_tax" \in DOMAIN resp[w].body
    /\ resp[w].body.price_with_tax = req[w].item.price + Val(req[w].item.tax)
    /\ "item_id" \in DOMAIN resp[w].body
    /\ resp[w].body.item_id = req[w].item_id

\* C5 as stated: in Item creation, if item.tax is present (any float value,
\* not null) the returned mapping contains price_with_tax = price + tax and
\* item_id, besides the item's own fields (and q when present).
CreateItemTaxPresent ==
    \A w \in Workers :
        /\ req[w].op = "create_item"
        /\ Returned(w)
        /\ req[w].item.tax # None
        => CreateItemHasPriceWithTax(w) /\ CreateItemEchoes(w)

\* C5 as amended: in Item creation, if item.tax is present and not zero the
\* returned mapping contains price_with_tax = price + tax and item_id,
\* besides the item's own fields (and q when present).
CreateItemTaxNonZero ==
    \A w \in Workers :
        /\ req[w].op = "create_item"
        /\ Returned(w)
        /\ req[w].item.tax # None
        /\ Val(req[w].item.tax) # 0
        => CreateItemHasPriceWithTax(w) /\ CreateItemEchoes(w)

\* an item with a negative tax and a q has been created
CreateItemWithTaxReturned ==
    \E w \in Workers :
        /\ req[w].op = "create_item"
        /\ Returned(w)
        /\ req[w].item.tax = Some(-1)
        /\ req[w].item.price = 2
        /\ req[w].q = Some(<<"foo", "bar">>)
        /\ resp[w].body.price_with_tax = 1

----------------------------------------------------------------------------
(* C6 *)

\* what the two lookups return whatever q is
LookupEchoes(w) ==
    /\ "item_id" \in DOMAIN resp[w].body
    /\ resp[w].body.item_id = req[w].item_id
    /\ req[w].op = "read_user_item" =>
          /\ "owner_id" \in DOMAIN resp[w].body
          /\ resp[w].body.owner_id = req[w].user_id
    /\ ("description" \in DOMAIN resp[w].body)
          <=> (req[w].short \in {None, Some(FALSE)})
    /\ "description" \in DOMAIN resp[w].body =>
          resp[w].body.description
             = "This is an amazing item that has a long description"

\* C6 as stated: Item lookup and User's item lookup always return item_id
\* (and owner_id = user_id for the user variant), the key q with the supplied
\* value if q is present in the request, and the fixed long description
\* exactly when short is false.
LookupIncludesPresentQ ==
    \A w \in Workers :
        req[w].op \in {"read_item", "read_user_item"} /\ Done(w) =>
            /\ Returned(w)
            /\ LookupEchoes(w)
            /\ req[w].q # None =>
                  "q" \in DOMAIN resp[w].body /\ resp[w].body.q = Val(req[w].q)

\* C6 as amended: ... the key q with the supplied value if q is present and
\* not the empty string (a q that is present but empty is left out) ...
LookupIncludesNonEmptyQ ==
    \A w \in Workers :
        req[w].op \in {"read_item", "read_user_item"} /\ Done(w) =>
            /\ Returned(w)
            /\ LookupEchoes(w)
            /\ req[w].q # None /\ Val(req[w].q) # "" =>
                  "q" \in DOMAIN resp[w].body /\ resp[w].body.q = Val(req[w].q)
            /\ req[w].q = Some("") => "q" \notin DOMAIN resp[w].body

\* a user's item lookup with a q and short left out has answered
UserLookupWithQReturned ==
    \E w \in Workers :
        /\ req[w].op = "read_user_item"
        /\ req[w].q = Some("foo")
        /\ req[w].short = None
        /\ Returned(w)
        /\ DOMAIN resp[w].body = {"item_id", "owner_id", "q", "description"}

----------------------------------------------------------------------------
(* C7 *)

\* what Item update returns whatever is truthy: item_id always, and q, item,
\* user, importance only if present, with the value supplied
UpdateItemOnlyPresent(w) ==
    /\ DOMAIN resp[w].body \subseteq {"item_id", "q", "item", "user", "importance"}
    /\ "item_id" \in DOMAIN resp[w].body
    /\ resp[w].body.item_id = req[w].item_id
    /\ "q" \in DOMAIN resp[w].body =>
          req[w].q # None /\ resp[w].body.q = Val(req[w].q)
    /\ "item" \in DOMAIN resp[w].body =>
          req[w].item # None /\ resp[w].body.item = BindItem(Val(req[w].item))
    /\ "user" \in DOMAIN resp[w].body =>
          req[w].user # None /\ resp[w].body.user = Val(req[w].user)
    /\ "importance" \in DOMAIN resp[w].body =>
          /\ req[w].importance # None
          /\ resp[w].body.importance = Val(req[w].importance)

\* C7 as stated: Item update with 0 <= item_id <= 1000 always returns item_id
\* (item_id = 0 included), returns each of q, item, user and importance only
\* if present, with the value supplied, and returns every one of them that is
\* present in the request (importance = 0 included).
UpdateItemIncludesPresent ==
    \A w \in Workers :
        req[w].op = "update_item" /\ Returned(w) =>
            /\ 0 <= req[w].item_id /\ req[w].item_id <= 1000
            /\ UpdateItemOnlyPresent(w)
            /\ req[w].q # None => "q" \in DOMAIN resp[w].body
            /\ req[w].item # None => "item" \in DOMAIN resp[w].body
            /\ req[w].user # None => "user" \in DOMAIN resp[w].body
            /\ req[w].importance # None => "importance" \in DOMAIN resp[w].body

\* C7 as amended: ... and returns every one of them that is present and
\* truthy: q unless it is the empty string, importance unless it is 0, item
\* and user whenever present; an empty q and importance = 0 are left out.
UpdateItemIncludesTruthy ==
    \A w \in Workers :
        req[w].op = "update_item" /\ Returned(w) =>
            /\ 0 <= req[w].item_id /\ req[w].item_id <= 1000
            /\ UpdateItemOnlyPresent(w)
            /\ ("q" \in DOMAIN resp[w].body)
                  <=> (req[w].q # None /\ Val(req[w].q) # "")
            /\ req[w].item # None => "item" \in DOMAIN resp[w].body
            /\ req[w].user # None => "user" \in DOMAIN resp[w].body
            /\ ("importance" \in DOMAIN resp[w].body)
                  <=> (req[w].importance # None /\ Val(req[w].importance) # 0)

\* item 0 has been updated with everything present and truthy
UpdateItemZeroReturned ==
    \E w \in Workers :
        /\ req[w].op = "update_item"
        /\ req[w].item_id = 0
        /\ Returned(w)
        /\ DOMAIN resp[w].body = {"item_id", "q", "item", "user", "importance"}
        /\ resp[w].body.item_id = 0

----------------------------------------------------------------------------
(* C9 *)

\* C9: in Item creation, when item.tax is falsy (absent, null or exactly 0)
\* the mapping has neither price_with_tax nor item_id and consists exactly of
\* the item's own fields unchanged, plus q only when q is a non-empty list.
CreateItemFalsyTaxSkips ==
    \A w \in Workers :
        /\ req[w].op = "create_item"
        /\ Returned(w)
        /\ (req[w].item.tax = None \/ req[w].item.tax = Some(0))
        => /\ "price_with_tax" \notin DOMAIN resp[w].body
           /\ "item_id" \notin DOMAIN resp[w].body
           /\ CreateItemEchoes(w)
           /\ DOMAIN resp[w].body =
                 ItemFields \cup
                    (IF req[w].q # None /\ Len(Val(req[w].q)) > 0
                     THEN {"q"} ELSE {})

\* an item with tax 0 has been created
CreateItemZeroTaxReturned ==
    \E w \in Workers :
        /\ req[w].op = "create_item"
        /\ Returned(w)
        /\ req[w].item.tax = Some(0)
        /\ req[w].q = Some(<<"foo">>)
        /\ DOMAIN resp[w].body = ItemFields \cup {"q"}

----------------------------------------------------------------------------
(* C10 *)

\* what a successful Time-window computation returns
TimeWindowResult(w) ==
    LET sd == Val(req[w].start_datetime)
        ed == Val(req[w].end_datetime)
        pa == Val(req[w].process_after)
        b == resp[w].body
        utc(d) == IF d.tz = None THEN d.wall ELSE d.wall - Val(d.tz)
    IN  /\ DOMAIN b = {"item_id", "start_datetime", "end_datetime", "repeat_at",
                       "process_after", "start_process", "duration"}
        /\ b.start_process = [wall |-> sd.wall + pa, tz |-> sd.tz]
        /\ b.duration = utc(ed) - utc(b.start_process)
        /\ b.item_id = req[w].item_id
        /\ b.start_datetime = req[w].start_datetime
        /\ b.end_datetime = req[w].end_datetime
        /\ b.repeat_at = req[w].repeat_at
        /\ b.process_after = req[w].process_after

AllThreePresent(r) ==
    r.start_datetime # None /\ r.process_after # None /\ r.end_datetime # None

\* C10 as stated: the Time-window handler returns a mapping if and only if
\* start_datetime, process_after and end_datetime are all present, whatever
\* repeat_at is; then start_process = start_datetime + process_after,
\* duration = end_datetime - start_process, and the inputs are echoed.
TimeWindowReturnsIffPresent ==
    \A w \in Workers :
        req[w].op = "read_items" /\ Done(w) =>
            /\ Returned(w) <=> AllThreePresent(req[w])
            /\ Returned(w) => TimeWindowResult(w)

\* C10 as amended: the Time-window handler returns a mapping if and only if
\* start_datetime, process_after and end_datetime are all present,
\* start_datetime and end_datetime are both naive or both timezone-aware, and
\* start_datetime + process_after lies within the datetime range; otherwise
\* it fails with an unhandled exception.  The rest is as stated.
TimeWindowReturnsIffComputable ==
    \A w \in Workers :
        req[w].op = "read_items" /\ Done(w) =>
            LET r == req[w]
                computable ==
                    /\ AllThreePresent(r)
                    /\ (Val(r.start_datetime).tz = None)
                          <=> (Val(r.end_datetime).tz = None)
                    /\ Val(r.start_datetime).wall + Val(r.process_after) >= 0
                    /\ Val(r.start_datetime).wall + Val(r.process_after) <= MaxWall
            IN  /\ Returned(w) <=> computable
                /\ ~Returned(w) => resp[w] = ServerError
                /\ Returned(w) => TimeWindowResult(w)

\* a Time-window over two timezones, without repeat_at, has answered
TimeWindowReturned ==
    \E w \in Workers :
        /\ req[w].op = "read_items"
        /\ Returned(w)
        /\ req[w].repeat_at = None
        /\ req[w].start_datetime = Some([wall |-> 0, tz |-> Some(1)])
        /\ req[w].process_after = Some(1)
        /\ req[w].end_datetime = Some([wall |-> 2, tz |-> Some(0)])
        /\ resp[w].body.duration = 2

----------------------------------------------------------------------------
(* C8 *)

\* C8: handlers share no mutable state: with requests executed concurrently,
\* their statements interleaved in any order, each request's response is the
\* response it gets when executed alone, whatever ran before or alongside it.
ResponseAsAlone ==
    \A w \in Workers : Done(w) => resp[w] = Alone(req[w])

\* one Item creation has answered with its price_with_tax while another is
\* half way through its body
CreateItemAnsweredBesideAnother ==
    \E v, w \in Workers :
        /\ v # w
        /\ req[v].op = "create_item" /\ req[w].op = "create_item"
        /\ req[v] # req[w]
        /\ Returned(v)
        /\ "price_with_tax" \in DOMAIN resp[v].body
        /\ pc[w] = "create_item:137"

====
